---- MODULE Spec2Model ----
(***************************************************************************)
(* The two coremltools demonstration notebooks of src/xgboost.ipynb (the   *)
(* XGBoost notebook, lines 1-269, and the PyTorch notebook, lines          *)
(* 271-532), run top to bottom ("Run All"): one action per code cell.      *)
(* Calls into xgboost, torch, numpy and coremltools are opaque: each is    *)
(* recorded in `trace` with the literal file name it is given; the         *)
(* notebooks' own list, dictionary, string and arithmetic code is          *)
(* computed.                                                               *)
(***************************************************************************)
EXTENDS Integers, Sequences, FiniteSets, TLC

VARIABLES
    notebook,        \* which notebook is being run
    pc,              \* index of the next code cell to run
    error,           \* "" or the exception that stopped the run
    trace,           \* library calls made so far: [op, file, mode]
    featmap_src,     \* the rows machine.featmap.txt was written from
    featmap,         \* the text of machine.featmap.txt
    feature_names,   \* xgboost: feature_names
    cml_model,       \* what convert() was given
    example,         \* xgboost: example
    prediction,      \* prediction
    sys_platform,    \* sys.platform as read by the last cell ("" before)
    IS_MACOS,        \* IS_MACOS
    loaded_model,    \* file name loaded_model was read from ("" before)
    predict_input,   \* the record given to loaded_model.predict
    label_lines,     \* pytorch: lines of the downloaded label text
    class_labels,    \* pytorch: class_labels
    out,             \* pytorch: out
    top_5_indices,   \* pytorch: top_5_indices (0-based, as in Python)
    printed,         \* pytorch: the rows printed by the test cell
    preprocess       \* pytorch: mean and std of transforms.Normalize

vars == <<notebook, pc, error, trace, featmap_src, featmap, feature_names,
          cml_model, example, prediction, sys_platform, IS_MACOS,
          loaded_model, predict_input, label_lines, class_labels, out,
          top_5_indices, printed, preprocess>>

----------------------------------------------------------------------------
\* Bounds of the model.

\* Rows of machine.featmap.txt beyond the optional block of the six
\* numeric features.
MaxLines == 2

\* Longest output vector of the classifier that is enumerated.
MaxOut == 6

\* Scores of the output vector are drawn from 0..MaxScore.
MaxScore == 1

----------------------------------------------------------------------------
\* Python built-ins used by the notebooks' own code.

\* The k-th smallest element of a set of integers.
Kth(S, k) == CHOOSE x \in S : Cardinality({y \in S : y <= x}) = k

\* A Python str is the sequence of the code points of its characters:
\* 'MYCT' is <<77, 89, 67, 84>>.  This covers every character a file or a
\* string of the notebooks can hold.

\* The characters U+0020 to U+005F and U+0061 to U+007E, in the order of
\* their code points (U+0060 is in no literal of the notebooks).
Below == " !\"#$%&'()*+,-./0123456789:;<=>?@ABCDEFGHIJKLMNOPQRSTUVWXYZ[\\]^_"

Above == "abcdefghijklmnopqrstuvwxyz{|}~"

\* ord(c) for a character of Below or Above.
Ord(c) ==
    LET lo == {k \in 1..Len(Below) : SubSeq(Below, k, k) = c}
        hi == {k \in 1..Len(Above) : SubSeq(Above, k, k) = c}
    IN IF lo # {} THEN 31 + Kth(lo, 1) ELSE 96 + Kth(hi, 1)

\* The str a literal of the notebooks denotes.
Str(s) == [i \in 1..Len(s) |-> Ord(SubSeq(s, i, i))]

\* The characters str.split() cuts at, those str.isspace() holds for:
\* U+0009 to U+000D, U+001C to U+001F, U+0020, U+0085, U+00A0, U+1680,
\* U+2000 to U+200A, U+2028, U+2029, U+202F, U+205F and U+3000.
Whitespace == (9..13) \cup (28..32) \cup {133, 160, 5760}
              \cup (8192..8202) \cup {8232, 8233, 8239, 8287, 12288}

CharAt(s, i) == s[i]

IsSpace(s, i) == CharAt(s, i) \in Whitespace

\* str.split() with no argument: the maximal runs of non-whitespace, in
\* order; a run starts after a whitespace character (or at the start) and
\* ends before one (or at the end).
Split(s) ==
    LET n == Len(s)
        starts == {i \in 1..n : ~IsSpace(s, i) /\ (i = 1 \/ IsSpace(s, i - 1))}
        ends == {i \in 1..n : ~IsSpace(s, i) /\ (i = n \/ IsSpace(s, i + 1))}
    IN [k \in 1..Cardinality(starts) |-> SubSeq(s, Kth(starts, k), Kth(ends, k))]

\* A line of a file ends at "\n" (10), at "\r\n" (13, 10) or at a "\r"
\* that no "\n" follows (universal newlines).
EndsLine(text, i) ==
    \/ CharAt(text, i) = 10
    \/ CharAt(text, i) = 13 /\ ~(i < Len(text) /\ CharAt(text, i + 1) = 10)

\* The line text[a..b] as text mode hands it out: its terminator, if it
\* has one, turned into "\n".
TextLine(text, a, b) ==
    IF ~EndsLine(text, b) THEN SubSeq(text, a, b)
    ELSE IF CharAt(text, b) = 10 /\ b > a /\ CharAt(text, b - 1) = 13
    THEN SubSeq(text, a, b - 2) \o <<10>>
    ELSE SubSeq(text, a, b - 1) \o <<10>>

\* open(name).readlines(): the text cut after every line end, each line
\* ending in "\n"; an unterminated rest is the last line.
ReadLines(text) ==
    LET n == Len(text)
        ends == {i \in 1..n : EndsLine(text, i) \/ i = n}
        first(k) == IF k = 1 THEN 1 ELSE Kth(ends, k - 1) + 1
    IN [k \in 1..Cardinality(ends) |-> TextLine(text, first(k), Kth(ends, k))]

\* str.startswith(prefix)
StartsWith(s, prefix) ==
    /\ Len(s) >= Len(prefix)
    /\ SubSeq(s, 1, Len(prefix)) = prefix

\* d[k] = v on a dict
SetItem(d, k, v) == [x \in (DOMAIN d) \cup {k} |-> IF x = k THEN v ELSE d[x]]

\* seq[1:]
SliceFrom1(s) == IF Len(s) = 0 THEN <<>> ELSE SubSeq(s, 2, Len(s))

\* seq[:n]
SliceTo(s, n) == SubSeq(s, 1, IF Len(s) < n THEN Len(s) ELSE n)

Range(s) == {s[i] : i \in 1..Len(s)}

----------------------------------------------------------------------------
\* The working directory: machine.featmap.txt, one row per feature,
\* "<index> <name> <type>".

\* A row of the file, its tokens written as literals.
Row(tokens) == [i \in 1..Len(tokens) |-> Str(tokens[i])]

SixRows == << Row(<<"0", "MYCT", "int">>), Row(<<"1", "MMIN", "int">>),
              Row(<<"2", "MMAX", "int">>), Row(<<"3", "CACH", "int">>),
              Row(<<"4", "CHMIN", "int">>), Row(<<"5", "CHMAX", "int">>) >>

\* Further rows: vendor levels, names that only resemble them, a name
\* with characters beyond ASCII that are no whitespace (U+00E9, U+200B,
\* U+180E), and rows with fewer than two tokens.
RowPool == { Row(<<"6", "vendor:ibm", "i">>),
             Row(<<"7", "vendor:hp", "i">>),
             Row(<<"8", "vendor", "i">>),
             Row(<<"9", "vendor:ibm2", "i">>),
             Row(<<"10", "vendo", "q">>),
             <<Str("11"), Str("vendor:") \o <<233, 8203, 6158>>, Str("i")>>,
             Row(<<"0", "MYCT">>),
             Row(<<"x">>),
             <<>> }

RowSeqs(n) == UNION {[1..k -> RowPool] : k \in 0..n}

FeatmapRows == {base \o extra : base \in {<<>>, SixRows}, extra \in RowSeqs(MaxLines)}

\* How the rows are laid out: separator, leading and trailing blanks, the
\* line terminator, and whether the last line is terminated.  Between
\* them the layouts use every character of Whitespace that does not end
\* a line.
Styles == { [lead |-> <<>>, sep |-> <<32>>, trail |-> <<>>, nl |-> <<10>>, eof |-> TRUE],
            [lead |-> <<>>, sep |-> <<9>>, trail |-> <<>>, nl |-> <<10>>, eof |-> FALSE],
            [lead |-> <<32>>, sep |-> <<32, 32>>, trail |-> <<32>>, nl |-> <<10>>, eof |-> TRUE],
            [lead |-> <<>>, sep |-> <<11, 12>>, trail |-> <<160, 30, 31>>,
             nl |-> <<13, 10>>, eof |-> TRUE],
            [lead |-> <<5760>>, sep |-> <<28, 29>>, trail |-> <<133>>,
             nl |-> <<13>>, eof |-> FALSE],
            [lead |-> <<8192, 8193, 8194, 8233>>, sep |-> <<8195, 12288, 8196, 8197>>,
             trail |-> <<8198, 8199, 8200, 8201, 8202, 8232, 8239, 8287>>,
             nl |-> <<10>>, eof |-> TRUE] }

RECURSIVE Join(_, _)
Join(tokens, sep) ==
    IF Len(tokens) = 0 THEN <<>>
    ELSE IF Len(tokens) = 1 THEN tokens[1]
    ELSE tokens[1] \o sep \o Join(Tail(tokens), sep)

RenderLine(tokens, st) == st.lead \o Join(tokens, st.sep) \o st.trail

\* The text of a file with the given rows.  A last line without a
\* terminating newline is a line only if it is not empty.
RECURSIVE FileText(_, _)
FileText(rows, st) ==
    IF Len(rows) = 0 THEN <<>>
    ELSE IF Len(rows) = 1
    THEN LET l == RenderLine(rows[1], st)
         IN IF st.eof \/ Len(l) = 0 THEN l \o st.nl ELSE l
    ELSE RenderLine(rows[1], st) \o st.nl \o FileText(Tail(rows), st)

----------------------------------------------------------------------------
\* The code cells of each notebook, top to bottom.

\* The cells with the save cell moved above the convert cell.
XgbCellsSaveFirst ==
    <<"import", "load_data", "train", "plot_tree", "test_accuracy",
      "load_featmap", "save", "convert", "show", "example", "predict">>

XgbCells == <<"import", "load_data", "train", "plot_tree", "test_accuracy",
              "load_featmap", "convert", "show", "save", "example", "predict">>

TorchCells == <<"create_model", "class_labels", "load_image", "test_model",
                "convert", "show", "save", "predict">>

Cells == IF notebook = "xgboost" THEN XgbCells ELSE TorchCells

Running == error = "" /\ pc <= Len(Cells)

Done == error = "" /\ pc > Len(Cells)

\* The cell "Run All" executes next in `nb`.
AtCell(nb, name) == notebook = nb /\ Running /\ Cells[pc] = name

Call(op, file, mode) == [op |-> op, file |-> file, mode |-> mode]

----------------------------------------------------------------------------
\* Values of Python variables before their first assignment.

NoModel == [converted |-> FALSE, feature_names |-> <<>>, target |-> "",
            mode |-> "", scale |-> <<0, 1>>, bias |-> <<>>,
            class_labels |-> <<>>]

NoDict == [k \in {} |-> 0]

NoPrediction == [type |-> "unset", text |-> ""]

Init ==
    /\ notebook \in {"xgboost", "pytorch"}
    /\ pc = 1
    /\ error = ""
    /\ trace = <<>>
    /\ \/ /\ notebook = "xgboost"
          /\ featmap_src \in FeatmapRows
          /\ \E st \in Styles : featmap = FileText(featmap_src, st)
       \/ /\ notebook = "pytorch"
          /\ featmap_src = <<>>
          /\ featmap = <<>>
    /\ feature_names = <<>>
    /\ cml_model = NoModel
    /\ example = NoDict
    /\ prediction = NoPrediction
    /\ sys_platform = ""
    /\ IS_MACOS = FALSE
    /\ loaded_model = ""
    /\ predict_input = NoDict
    /\ label_lines = <<>>
    /\ class_labels = <<>>
    /\ out = <<>>
    /\ top_5_indices = <<>>
    /\ printed = <<>>
    /\ preprocess = [mean |-> <<>>, std |-> <<>>]

----------------------------------------------------------------------------
\* XGBoost notebook.

xgbVars == <<notebook, featmap_src, featmap, label_lines, class_labels, out,
             top_5_indices, printed, preprocess>>

\* import xgboost as xgb; import matplotlib.pyplot as plt
XgbImport ==
    /\ AtCell("xgboost", "import")
    /\ pc' = pc + 1
    /\ UNCHANGED <<error, trace, feature_names, cml_model, example, prediction,
                   sys_platform, IS_MACOS, loaded_model, predict_input>>
    /\ UNCHANGED xgbVars

\* The cell loading the training data only.
XgbLoadDataTrainOnly ==
    /\ AtCell("xgboost", "load_data")
    /\ trace' = Append(trace, Call("DMatrix", "machine.txt.train", "r"))
    /\ pc' = pc + 1
    /\ UNCHANGED <<error, feature_names, cml_model, example, prediction,
                   sys_platform, IS_MACOS, loaded_model, predict_input>>
    /\ UNCHANGED xgbVars

\* dtrain = xgb.DMatrix('machine.txt.train'); dtest = xgb.DMatrix('machine.txt.test')
XgbLoadData ==
    /\ AtCell("xgboost", "load_data")
    /\ trace' = trace \o << Call("DMatrix", "machine.txt.train", "r"),
                            Call("DMatrix", "machine.txt.test", "r") >>
    /\ pc' = pc + 1
    /\ UNCHANGED <<error, feature_names, cml_model, example, prediction,
                   sys_platform, IS_MACOS, loaded_model, predict_input>>
    /\ UNCHANGED xgbVars

\* bst_model = xgb.train(param, dtrain, num_boost_round=2)
XgbTrain ==
    /\ AtCell("xgboost", "train")
    /\ trace' = Append(trace, Call("train", "", ""))
    /\ pc' = pc + 1
    /\ UNCHANGED <<error, feature_names, cml_model, example, prediction,
                   sys_platform, IS_MACOS, loaded_model, predict_input>>
    /\ UNCHANGED xgbVars

\* xgb.plot_tree(bst_model, 'machine.featmap.txt'); plt.show()
XgbPlotTree ==
    /\ AtCell("xgboost", "plot_tree")
    /\ trace' = Append(trace, Call("plot_tree", "machine.featmap.txt", "r"))
    /\ pc' = pc + 1
    /\ UNCHANGED <<error, feature_names, cml_model, example, prediction,
                   sys_platform, IS_MACOS, loaded_model, predict_input>>
    /\ UNCHANGED xgbVars

\* prediction = bst_model.predict(dtrain); the error histogram
XgbTestAccuracy ==
    /\ AtCell("xgboost", "test_accuracy")
    /\ trace' = Append(trace, Call("bst_model.predict", "", ""))
    /\ prediction' = [type |-> "ndarray", text |-> ""]
    /\ pc' = pc + 1
    /\ UNCHANGED <<error, feature_names, cml_model, example,
                   sys_platform, IS_MACOS, loaded_model, predict_input>>
    /\ UNCHANGED xgbVars

\* The loop taking line.split()[0], the feature index, for the name.
RECURSIVE LoadNamesFirstToken(_, _)
LoadNamesFirstToken(lines, names) ==
    IF Len(lines) = 0 THEN [names |-> names, error |-> ""]
    ELSE LET toks == Split(lines[1])
         IN IF Len(toks) < 2
            THEN [names |-> names, error |-> "IndexError"]
            ELSE LoadNamesFirstToken(Tail(lines), Append(names, toks[1]))

\* The loop body over f.readlines(): feature_names.append(line.split()[1]).
\* An IndexError on a line with fewer than two tokens ends the loop with
\* the names appended so far.
RECURSIVE LoadNames(_, _)
LoadNames(lines, names) ==
    IF Len(lines) = 0 THEN [names |-> names, error |-> ""]
    ELSE LET toks == Split(lines[1])
         IN IF Len(toks) < 2
            THEN [names |-> names, error |-> "IndexError"]
            ELSE LoadNames(Tail(lines), Append(names, toks[2]))

XgbLoadFeatmap ==
    /\ AtCell("xgboost", "load_featmap")
    /\ LET r == LoadNames(ReadLines(featmap), <<>>)
       IN /\ feature_names' = r.names
          /\ error' = r.error
          /\ pc' = IF r.error = "" THEN pc + 1 ELSE pc
    /\ trace' = Append(trace, Call("open", "machine.featmap.txt", "r"))
    /\ UNCHANGED <<cml_model, example, prediction,
                   sys_platform, IS_MACOS, loaded_model, predict_input>>
    /\ UNCHANGED xgbVars

\* cml_model = ct.converters.xgboost.convert(bst_model,
\*     feature_names=feature_names, target='perf', mode='regressor')
XgbConvertArgs(names) ==
    [NoModel EXCEPT !.converted = TRUE, !.feature_names = names,
                    !.target = "perf", !.mode = "regressor"]

XgbConvert ==
    /\ AtCell("xgboost", "convert")
    /\ cml_model' = XgbConvertArgs(feature_names)
    /\ trace' = Append(trace, Call("convert", "", ""))
    /\ pc' = pc + 1
    /\ UNCHANGED <<error, feature_names, example, prediction,
                   sys_platform, IS_MACOS, loaded_model, predict_input>>
    /\ UNCHANGED xgbVars

\* cml_model
XgbShow ==
    /\ AtCell("xgboost", "show")
    /\ pc' = pc + 1
    /\ UNCHANGED <<error, trace, feature_names, cml_model, example, prediction,
                   sys_platform, IS_MACOS, loaded_model, predict_input>>
    /\ UNCHANGED xgbVars

\* The artifact saved under a misspelt name.
XgbArtifactTypo == "machine.mlmodell"

\* cml_model.save('machine.mlmodel')
XgbArtifact == "machine.mlmodel"

XgbSave ==
    /\ AtCell("xgboost", "save")
    /\ trace' = Append(trace, Call("save", XgbArtifact, "w"))
    /\ pc' = pc + 1
    /\ UNCHANGED <<error, feature_names, cml_model, example, prediction,
                   sys_platform, IS_MACOS, loaded_model, predict_input>>
    /\ UNCHANGED xgbVars

\* example = {'MYCT': 125, ...}
ExampleLiteral ==
    [k \in {Str("MYCT"), Str("MMIN"), Str("MMAX"),
            Str("CACH"), Str("CHMIN"), Str("CHMAX")} |->
        CASE k = Str("MYCT") -> 125
          [] k = Str("MMIN") -> 256
          [] k = Str("MMAX") -> 6000
          [] k = Str("CACH") -> 256
          [] k = Str("CHMIN") -> 16
          [] k = Str("CHMAX") -> 128]

\* The loop body with its two tests in the other order: the prefix test
\* catches 'vendor:ibm' first.
OneHotStepSwapped(ex, feature_name) ==
    IF StartsWith(feature_name, Str("vendor")) THEN SetItem(ex, feature_name, 0)
    ELSE IF feature_name = Str("vendor:ibm") THEN SetItem(ex, feature_name, 1)
    ELSE ex

\* The loop body without its elif branch.
OneHotStepIbmOnly(ex, feature_name) ==
    IF feature_name = Str("vendor:ibm") THEN SetItem(ex, feature_name, 1)
    ELSE ex

\* One pass of the loop body: the if / elif on feature_name.
OneHotStep(ex, feature_name) ==
    IF feature_name = Str("vendor:ibm") THEN SetItem(ex, feature_name, 1)
    ELSE IF StartsWith(feature_name, Str("vendor")) THEN SetItem(ex, feature_name, 0)
    ELSE ex

\* for feature_name in feature_names: ...
RECURSIVE OneHot(_, _)
OneHot(ex, names) ==
    IF Len(names) = 0 THEN ex
    ELSE OneHot(OneHotStep(ex, names[1]), Tail(names))

XgbExample ==
    /\ AtCell("xgboost", "example")
    /\ example' = OneHot(ExampleLiteral, feature_names)
    /\ pc' = pc + 1
    /\ UNCHANGED <<error, trace, feature_names, cml_model, prediction,
                   sys_platform, IS_MACOS, loaded_model, predict_input>>
    /\ UNCHANGED xgbVars

\* sys.platform, as the environment gives it.
Platforms == {"darwin", "linux", "win32"}

SkipText == "Skipping prediction on non-macOS system"

\* The last cell taking every platform but Linux for macOS.
PredictCellNotLinux(platform, file, input) ==
    /\ sys_platform' = platform
    /\ IS_MACOS' = (platform # "linux")
    /\ IF platform # "linux"
       THEN /\ loaded_model' = file
            /\ predict_input' = input
            /\ prediction' = [type |-> "dict", text |-> ""]
            /\ trace' = trace \o << Call("MLModel", file, "r"),
                                    Call("loaded_model.predict", "", "") >>
       ELSE /\ prediction' = [type |-> "str", text |-> SkipText]
            /\ UNCHANGED <<loaded_model, predict_input, trace>>

\* The body of the last cell of either notebook, for the artifact `file`
\* and the record `input` given to predict.
PredictCell(platform, file, input) ==
    /\ sys_platform' = platform
    /\ IS_MACOS' = (platform = "darwin")
    /\ IF platform = "darwin"
       THEN /\ loaded_model' = file
            /\ predict_input' = input
            /\ prediction' = [type |-> "dict", text |-> ""]
            /\ trace' = trace \o << Call("MLModel", file, "r"),
                                    Call("loaded_model.predict", "", "") >>
       ELSE /\ prediction' = [type |-> "str", text |-> SkipText]
            /\ UNCHANGED <<loaded_model, predict_input, trace>>

XgbPredict ==
    /\ AtCell("xgboost", "predict")
    /\ \E platform \in Platforms : PredictCell(platform, "machine.mlmodel", example)
    /\ pc' = pc + 1
    /\ UNCHANGED <<error, feature_names, cml_model, example>>
    /\ UNCHANGED xgbVars

XgbNext ==
    \/ XgbImport
    \/ XgbLoadData
    \/ XgbTrain
    \/ XgbPlotTree
    \/ XgbTestAccuracy
    \/ XgbLoadFeatmap
    \/ XgbConvert
    \/ XgbShow
    \/ XgbSave
    \/ XgbExample
    \/ XgbPredict

----------------------------------------------------------------------------
\* Exact arithmetic on the notebooks' decimal literals: a rational is
\* <<numerator, denominator>> in lowest terms with a positive denominator.

RECURSIVE GCD(_, _)
GCD(a, b) == IF b = 0 THEN a ELSE GCD(b, a % b)

Abs(a) == IF a < 0 THEN -a ELSE a

Rat(n, d) ==
    LET g == GCD(Abs(n), Abs(d))
        sg == IF d < 0 THEN -1 ELSE 1
    IN <<(sg * n) \div g, (sg * d) \div g>>

RAdd(x, y) == Rat(x[1] * y[2] + y[1] * x[2], x[2] * y[2])
RNeg(x) == <<-x[1], x[2]>>
RSub(x, y) == RAdd(x, RNeg(y))
RMul(x, y) ==
    LET a == Rat(x[1], y[2])
        b == Rat(y[1], x[2])
    IN Rat(a[1] * b[1], a[2] * b[2])
RDiv(x, y) == RMul(x, <<y[2], y[1]>>)

\* An integer, and a decimal literal with three places (0.485 is Milli(485)).
Int1(n) == <<n, 1>>
Milli(n) == Rat(n, 1000)

----------------------------------------------------------------------------
\* PyTorch notebook.

torchVars == <<notebook, featmap_src, featmap, feature_names, example>>

\* torch_model = Sequential(torch.hub.load(..., 'mobilenet_v2', pretrained=True), Softmax)
TorchCreateModel ==
    /\ AtCell("pytorch", "create_model")
    /\ trace' = Append(trace, Call("hub.load", "", ""))
    /\ pc' = pc + 1
    /\ UNCHANGED <<error, cml_model, prediction, sys_platform, IS_MACOS,
                   loaded_model, predict_input, label_lines, class_labels, out,
                   top_5_indices, printed, preprocess>>
    /\ UNCHANGED torchVars

\* assert len(class_labels) == 1000
NumClasses == 1000

\* Line counts of the downloaded text that are tried.
LabelCounts == {0, 1, 2, NumClasses - 1, NumClasses, NumClasses + 1, NumClasses + 2}

\* The downloaded lines: the placeholder first, then one label per class;
\* in the second variant the placeholder word occurs again further down.
LabelLine(variant, i) ==
    IF i = 1 \/ (variant = 2 /\ i = 3) THEN "background"
    ELSE "class" \o ToString(i - 1)

LabelTexts == {[i \in 1..n |-> LabelLine(variant, i)] : n \in LabelCounts, variant \in {1, 2}}

\* class_labels[:-1]: the last line dropped instead of the first.
DropLast(lines) == SubSeq(lines, 1, Len(lines) - 1)

\* class_labels = class_labels[1:]
DropBackground(lines) == SliceFrom1(lines)

\* class_labels = urlopen(label_url).read().decode("utf-8").splitlines()
\* class_labels = class_labels[1:]; assert len(class_labels) == 1000
TorchClassLabels ==
    /\ AtCell("pytorch", "class_labels")
    /\ \E lines \in LabelTexts :
          /\ label_lines' = lines
          /\ class_labels' = DropBackground(lines)
    /\ trace' = Append(trace, Call("urlopen", "", ""))
    /\ IF Len(class_labels') = NumClasses
       THEN pc' = pc + 1 /\ error' = error
       ELSE pc' = pc /\ error' = "AssertionError"
    /\ UNCHANGED <<cml_model, prediction, sys_platform, IS_MACOS,
                   loaded_model, predict_input, out,
                   top_5_indices, printed, preprocess>>
    /\ UNCHANGED torchVars

\* img = PIL.Image.open('Dog.jpg').resize(input_shape[1:])
TorchLoadImage ==
    /\ AtCell("pytorch", "load_image")
    /\ trace' = Append(trace, Call("Image.open", "Dog.jpg", "r"))
    /\ pc' = pc + 1
    /\ UNCHANGED <<error, cml_model, prediction, sys_platform, IS_MACOS,
                   loaded_model, predict_input, label_lines, class_labels, out,
                   top_5_indices, printed, preprocess>>
    /\ UNCHANGED torchVars

\* transforms.Normalize(mean=(0.485, 0.456, 0.406), std=(0.229, 0.224, 0.225))
NormalizeArgs == [mean |-> <<Milli(485), Milli(456), Milli(406)>>,
                  std |-> <<Milli(229), Milli(224), Milli(225)>>]

\* transforms.ToTensor() on one 8-bit pixel value, then Normalize on
\* channel c: (p / 255 - mean[c]) / std[c]
ToTensor(p) == RDiv(Int1(p), Int1(255))

Normalize(x, c, args) == RDiv(RSub(x, args.mean[c]), args.std[c])

\* [:5]
TopK == 5

\* Output vectors of torch_model that are tried: scores as integers.
OutVectors == UNION {[1..n -> 0..MaxScore] : n \in TopK..MaxOut}

Min(S) == CHOOSE x \in S : \A y \in S : x <= y

\* np.argsort(v): the 0-based indices in an order of non-decreasing value.
\* The default sort is not stable, so every order of equal values is a
\* possible result.
RECURSIVE SortedOrders(_, _)
SortedOrders(v, remaining) ==
    IF remaining = {} THEN {<<>>}
    ELSE LET m == Min({v[j + 1] : j \in remaining})
         IN UNION {{<<i>> \o rest : rest \in SortedOrders(v, remaining \ {i})} :
                      i \in {j \in remaining : v[j + 1] = m}}

Argsort(v) == SortedOrders(v, 0..(Len(v) - 1))

\* np.flip(a)
Flip(a) == [i \in 1..Len(a) |-> a[Len(a) + 1 - i]]

\* np.argsort(out)[:5]: the flip forgotten.
Top5NoFlip(order) == SliceTo(order, TopK)

\* np.flip(np.argsort(out))[:5], for one result of argsort
Top5(order) == SliceTo(Flip(order), TopK)

\* for i in top_5_indices: print(class_labels[i], out[i])
PrintRow(labels, o, i) == [label |-> labels[i + 1], score |-> o[i + 1]]

\* The loop: a row per index, until an index outside class_labels raises
\* IndexError; the rows before it are printed.
RECURSIVE PrintLoop(_, _, _, _)
PrintLoop(labels, o, idx, rows) ==
    IF Len(idx) = 0 THEN [rows |-> rows, error |-> ""]
    ELSE IF idx[1] >= Len(labels) THEN [rows |-> rows, error |-> "IndexError"]
    ELSE PrintLoop(labels, o, Tail(idx), Append(rows, PrintRow(labels, o, idx[1])))

\* preprocess, out = torch_model(input_batch)[0].numpy(), top_5_indices,
\* print; `outs` are the output vectors the model may return.
TestModel(outs) ==
    /\ AtCell("pytorch", "test_model")
    /\ preprocess' = NormalizeArgs
    /\ \E o \in outs : \E order \in Argsort(o) :
          /\ out' = o
          /\ top_5_indices' = Top5(order)
    /\ LET r == PrintLoop(class_labels, out', top_5_indices', <<>>)
       IN /\ printed' = r.rows
          /\ error' = r.error
          /\ pc' = IF r.error = "" THEN pc + 1 ELSE pc
    /\ trace' = Append(trace, Call("torch_model", "", ""))
    /\ UNCHANGED <<cml_model, prediction, sys_platform, IS_MACOS,
                   loaded_model, predict_input, label_lines, class_labels>>
    /\ UNCHANGED torchVars

\* Two output vectors for the runs of the whole notebook: one with a tie
\* at the fifth place, one with as many classes as places.
OutSamples == { <<3, 1, 4, 1, 5, 9>>, <<2, 0, 2, 1, 0>> }

TorchTestModel == TestModel(OutSamples)

\* The test cell over every output vector within the bounds.
TorchTestModelAll == TestModel(OutVectors)

\* 1.0/255.0*0.226: the standard deviation multiplied instead of divided.
ImageScaleSlip == RMul(RDiv(Int1(1), Int1(255)), Milli(226))

\* ct.ImageType(color_layout='RGB', scale=1.0/255.0/0.226,
\*              bias=(-0.485/0.226, -0.456/0.226, -0.406/0.226), ...)
ImageScale == RDiv(RDiv(Int1(1), Int1(255)), Milli(226))

ImageBias == << RDiv(RNeg(Milli(485)), Milli(226)),
                RDiv(RNeg(Milli(456)), Milli(226)),
                RDiv(RNeg(Milli(406)), Milli(226)) >>

TorchConvertArgs(labels) ==
    [NoModel EXCEPT !.converted = TRUE, !.scale = ImageScale,
                    !.bias = ImageBias, !.class_labels = labels]

\* traced_model = torch.jit.trace(...); cml_model = ct.convert(traced_model, ...)
TorchConvert ==
    /\ AtCell("pytorch", "convert")
    /\ cml_model' = TorchConvertArgs(class_labels)
    /\ trace' = trace \o << Call("jit.trace", "", ""), Call("convert", "", "") >>
    /\ pc' = pc + 1
    /\ UNCHANGED <<error, prediction, sys_platform, IS_MACOS,
                   loaded_model, predict_input, label_lines, class_labels, out,
                   top_5_indices, printed, preprocess>>
    /\ UNCHANGED torchVars

\* cml_model
TorchShow ==
    /\ AtCell("pytorch", "show")
    /\ pc' = pc + 1
    /\ UNCHANGED <<error, trace, cml_model, prediction, sys_platform, IS_MACOS,
                   loaded_model, predict_input, label_lines, class_labels, out,
                   top_5_indices, printed, preprocess>>
    /\ UNCHANGED torchVars

\* cml_model.save('MobileNet_v2_torch.mlmodel')
TorchArtifact == "MobileNet_v2_torch.mlmodel"

TorchSave ==
    /\ AtCell("pytorch", "save")
    /\ trace' = Append(trace, Call("save", TorchArtifact, "w"))
    /\ pc' = pc + 1
    /\ UNCHANGED <<error, cml_model, prediction, sys_platform, IS_MACOS,
                   loaded_model, predict_input, label_lines, class_labels, out,
                   top_5_indices, printed, preprocess>>
    /\ UNCHANGED torchVars

\* {'input.1': img}; the image object is written 1.
TorchInput == [k \in {Str("input.1")} |-> 1]

TorchPredict ==
    /\ AtCell("pytorch", "predict")
    /\ \E platform \in Platforms :
          PredictCell(platform, "MobileNet_v2_torch.mlmodel", TorchInput)
    /\ pc' = pc + 1
    /\ UNCHANGED <<error, cml_model, label_lines, class_labels, out,
                   top_5_indices, printed, preprocess>>
    /\ UNCHANGED torchVars

\* The image input layer of the converted model: image * scale + bias.
ImageInput(model, p, c) == RAdd(RMul(Int1(p), model.scale), model.bias[c])

TorchNext ==
    \/ TorchCreateModel
    \/ TorchClassLabels
    \/ TorchLoadImage
    \/ TorchTestModel
    \/ TorchConvert
    \/ TorchShow
    \/ TorchSave
    \/ TorchPredict

Next == XgbNext \/ TorchNext

Spec == Init /\ [][Next]_vars

\* The PyTorch notebook run up to and including its test cell, over every
\* output vector within the bounds.
InitTorch == Init /\ notebook = "pytorch"

NextTop5 ==
    \/ TorchCreateModel
    \/ TorchClassLabels
    \/ TorchLoadImage
    \/ TorchTestModelAll

SpecTop5 == InitTorch /\ [][NextTop5]_vars

----------------------------------------------------------------------------
\* Properties.

\* Cell `name` of the running notebook has run to its end.
CellDone(name) == \E k \in 1..Len(Cells) : Cells[k] = name /\ pc > k

\* Positions in `trace` of the calls of `op`.
At(op) == {i \in 1..Len(trace) : trace[i].op = op}

\* The artifact file name each notebook's text gives.
Artifact == IF notebook = "xgboost" THEN "machine.mlmodel"
            ELSE "MobileNet_v2_torch.mlmodel"

SixNames == {Str("MYCT"), Str("MMIN"), Str("MMAX"),
             Str("CACH"), Str("CHMIN"), Str("CHMAX")}

\* C1: in the last cell, off macOS the saved model is not loaded, predict
\* is not called and prediction is the literal skip text; on macOS the
\* model is loaded from the artifact file and predict is called exactly
\* once on it; there is no third outcome, and neither call happens before
\* that cell.
C1_FinalCell ==
    IF ~CellDone("predict")
    THEN /\ At("MLModel") = {}
         /\ At("loaded_model.predict") = {}
         /\ loaded_model = ""
         /\ prediction.type \in {"unset", "ndarray"}
    ELSE IF sys_platform = "darwin"
    THEN /\ IS_MACOS
         /\ Cardinality(At("MLModel")) = 1
         /\ \A i \in At("MLModel") : trace[i].file = Artifact
         /\ loaded_model = Artifact
         /\ Cardinality(At("loaded_model.predict")) = 1
         /\ \A i \in At("MLModel") : \A j \in At("loaded_model.predict") : i < j
         /\ prediction.type = "dict"
    ELSE /\ ~IS_MACOS
         /\ sys_platform \in {"linux", "win32"}
         /\ At("MLModel") = {}
         /\ At("loaded_model.predict") = {}
         /\ loaded_model = ""
         /\ prediction = [type |-> "str",
                          text |-> "Skipping prediction on non-macOS system"]

C1_Witness ==
    /\ CellDone("predict")
    /\ sys_platform = "win32"
    /\ prediction.text = "Skipping prediction on non-macOS system"

\* The calls of the pipeline steps, in the order made.
IsStep(c) == c.op \in {"DMatrix", "train", "hub.load", "convert", "save",
                       "MLModel", "loaded_model.predict"}

StepOps == LET t == SelectSeq(trace, IsStep) IN [i \in 1..Len(t) |-> t[i].op]

\* C2: run top to bottom, the steps come in the order load data, train or
\* construct the model, convert, save, and on macOS only reload and
\* predict: no conversion before training, no save before conversion, and
\* a reload only after the save of the same run and of the same file name.
C2_Order ==
    /\ \A j \in At("train") : \E i \in At("DMatrix") : i < j
    /\ \A j \in At("convert") : \E i \in At("train") \cup At("hub.load") : i < j
    /\ \A j \in At("save") : \E i \in At("convert") : i < j
    /\ \A j \in At("MLModel") :
          /\ sys_platform = "darwin"
          /\ \E i \in At("save") : i < j /\ trace[i].file = trace[j].file
          /\ trace[j].file = Artifact
    /\ Done =>
          StepOps = (IF notebook = "xgboost"
                     THEN <<"DMatrix", "DMatrix", "train">>
                     ELSE <<"hub.load">>)
                    \o <<"convert", "save">>
                    \o (IF sys_platform = "darwin"
                        THEN <<"MLModel", "loaded_model.predict">>
                        ELSE <<>>)

C2_Witness ==
    /\ Done
    /\ notebook = "xgboost"
    /\ sys_platform = "darwin"
    /\ loaded_model = "machine.mlmodel"

\* The label cell has run, to its end or to its assertion.
LabelsRan == notebook = "pytorch" /\ At("urlopen") # {}

\* What C3 says of a label text of n lines, given the number of entries
\* it leaves.
LabelsCell(entries) ==
    LabelsRan =>
        LET n == Len(label_lines)
        IN /\ Len(class_labels) = entries
           /\ \A i \in 1..Len(class_labels) : class_labels[i] = label_lines[i + 1]
           /\ CellDone("class_labels") => Len(class_labels) = 1000
           /\ CellDone("class_labels") <=> n = 1001
           /\ ~CellDone("class_labels") =>
                 /\ error = "AssertionError"
                 /\ At("convert") = {}

\* C3 as stated: a label text of N lines leaves the lines without the
\* first one, in order, N - 1 entries; the assertion passes exactly when
\* N = 1001 and otherwise stops the notebook before the conversion.
C3_Original == LabelsCell(Len(label_lines) - 1)

\* C3 amended: as stated, with N - 1 entries for N >= 1 and no entry for
\* an empty text (N = 0).
C3_Labels == LabelsCell(IF Len(label_lines) = 0 THEN 0 ELSE Len(label_lines) - 1)

C3_Witness ==
    /\ LabelsRan
    /\ CellDone("class_labels")
    /\ Len(label_lines) = 1001
    /\ class_labels[1] = label_lines[2]

IsWrite(c) == c.mode = "w"

Writes == SelectSeq(trace, IsWrite)

\* C4: a notebook run top to bottom writes exactly one file, once, under
\* its literal artifact name, whatever the platform; nothing else is
\* written at any point of the run.
C4_OneWrite ==
    /\ Len(Writes) <= 1
    /\ \A i \in 1..Len(Writes) : Writes[i].op = "save" /\ Writes[i].file = Artifact
    /\ CellDone("save") => Len(Writes) = 1
    /\ Done => Len(Writes) = 1 /\ sys_platform \in {"darwin", "linux", "win32"}

C4_Witness ==
    /\ Done
    /\ notebook = "pytorch"
    /\ sys_platform = "linux"
    /\ Len(Writes) = 1

\* The file names opened for reading, the reloaded artifact aside.
InputFiles == {trace[i].file : i \in {j \in 1..Len(trace) : trace[j].mode = "r"}}
              \ {Artifact}

\* C5 as stated: the input file names the notebooks' code reads are
\* exactly two.
C5_Original == Done => Cardinality(InputFiles) = 2

\* C5 amended: the input file names are four: machine.txt.train,
\* machine.txt.test and machine.featmap.txt in the XGBoost notebook, and
\* Dog.jpg in the PyTorch notebook.
C5_Inputs ==
    LET xgb == {"machine.txt.train", "machine.txt.test", "machine.featmap.txt"}
        torch == {"Dog.jpg"}
    IN /\ Cardinality(xgb \cup torch) = 4
       /\ InputFiles \subseteq (IF notebook = "xgboost" THEN xgb ELSE torch)
       /\ Done => InputFiles = (IF notebook = "xgboost" THEN xgb ELSE torch)

C5_Witness ==
    /\ Done
    /\ notebook = "xgboost"
    /\ Cardinality(InputFiles) = 3

Channels == 1..3

Pixels == 0..255

ConvertedImage == notebook = "pytorch" /\ CellDone("convert")

\* C6 as stated: for every channel c and pixel value p, p * scale + bias_c
\* is Normalize applied to p / 255: scale = 1 / (255 * std_c) and
\* bias_c = -mean_c / std_c.
C6_Original ==
    ConvertedImage =>
        \A c \in Channels :
            /\ cml_model.scale = RDiv(Int1(1), RMul(Int1(255), preprocess.std[c]))
            /\ cml_model.bias[c] = RDiv(RNeg(preprocess.mean[c]), preprocess.std[c])
            /\ \A p \in Pixels :
                  ImageInput(cml_model, p, c) = Normalize(ToTensor(p), c, preprocess)

\* C6 amended: the same with one standard deviation for all channels, the
\* mean 0.226 of Normalize's three: scale = 1 / (255 * 0.226),
\* bias_c = -mean_c / 0.226 and p * scale + bias_c = (p / 255 - mean_c) / 0.226.
C6_Scale ==
    ConvertedImage =>
        LET std == preprocess.std
            s == RDiv(RAdd(RAdd(std[1], std[2]), std[3]), Int1(3))
            one == [preprocess EXCEPT !.std = <<s, s, s>>]
        IN /\ s = <<113, 500>>
           /\ cml_model.scale = RDiv(Int1(1), RMul(Int1(255), s))
           /\ \A c \in Channels :
                 /\ cml_model.bias[c] = RDiv(RNeg(preprocess.mean[c]), s)
                 /\ \A p \in Pixels :
                       ImageInput(cml_model, p, c) = Normalize(ToTensor(p), c, one)

C6_Witness ==
    /\ ConvertedImage
    /\ cml_model.converted
    /\ ImageInput(cml_model, 255, 1) = <<515, 226>>

\* The feature-map cell has run, to its end or to an error.
FeatmapRan == notebook = "xgboost" /\ At("open") # {}

\* Rows of the file that have fewer than two tokens.
ShortRows == {i \in 1..Len(featmap_src) : Len(featmap_src[i]) < 2}

\* C7: after the feature-map cell, feature_names has one entry per line of
\* the file, in order, the second token of that line, when every line has
\* two tokens; a line with fewer stops the cell with an error (it is not
\* skipped); the list goes unchanged into the conversion and no later
\* cell changes it.
C7_FeatureNames ==
    IF ~FeatmapRan THEN feature_names = <<>>
    ELSE IF ShortRows = {}
    THEN /\ error = ""
         /\ CellDone("load_featmap")
         /\ Len(feature_names) = Len(featmap_src)
         /\ \A i \in 1..Len(featmap_src) : feature_names[i] = featmap_src[i][2]
         /\ CellDone("convert") =>
               cml_model.converted /\ cml_model.feature_names = feature_names
    ELSE /\ error = "IndexError"
         /\ ~CellDone("load_featmap")
         /\ ~cml_model.converted
         /\ Len(feature_names) = Min(ShortRows) - 1
         /\ \A i \in 1..Len(feature_names) : feature_names[i] = featmap_src[i][2]

C7_Witness ==
    /\ Done
    /\ notebook = "xgboost"
    /\ Len(feature_names) = 8
    /\ feature_names[7] = Str("vendor:ibm")
    /\ cml_model.feature_names = feature_names

ExampleBuilt == notebook = "xgboost" /\ CellDone("example")

IsVendor(name) ==
    /\ Len(name) >= 6
    /\ SubSeq(name, 1, 6) = Str("vendor")

VendorKeys == {k \in DOMAIN example : IsVendor(k)}

\* C8: the one-hot loop gives every feature name that starts with
\* 'vendor' the value 1 if it is 'vendor:ibm' and 0 otherwise, writes no
\* other key and leaves the six literal entries as they were; so at most
\* one vendor feature is 1, and exactly one if and only if 'vendor:ibm' is
\* among the feature names.
C8_OneHot ==
    ExampleBuilt =>
        LET names == Range(feature_names)
            ones == {k \in VendorKeys : example[k] = 1}
        IN /\ \A n \in names :
                 IsVendor(n) =>
                    /\ n \in DOMAIN example
                    /\ example[n] = (IF n = Str("vendor:ibm") THEN 1 ELSE 0)
           /\ DOMAIN example = SixNames \cup {n \in names : IsVendor(n)}
           /\ example[Str("MYCT")] = 125
           /\ example[Str("MMIN")] = 256
           /\ example[Str("MMAX")] = 6000
           /\ example[Str("CACH")] = 256
           /\ example[Str("CHMIN")] = 16
           /\ example[Str("CHMAX")] = 128
           /\ Cardinality(ones) <= 1
           /\ Cardinality(ones) = 1 <=> Str("vendor:ibm") \in names

C8_Witness ==
    /\ ExampleBuilt
    /\ feature_names = <<Str("vendor:hp"), Str("vendor:ibm")>>
    /\ example[Str("vendor:ibm")] = 1
    /\ example[Str("vendor:hp")] = 0

\* C9: if every feature name is one of the six literal names or starts
\* with 'vendor', the example record has a value for every feature name;
\* if moreover all six literal names are feature names, it has no other
\* key; and that record is the one given to predict.
C9_ExampleKeys ==
    /\ ExampleBuilt =>
          LET names == Range(feature_names)
              known == \A n \in names : n \in SixNames \/ IsVendor(n)
          IN /\ known => names \subseteq DOMAIN example
             /\ (known /\ SixNames \subseteq names) => DOMAIN example = names
    /\ (notebook = "xgboost" /\ At("loaded_model.predict") # {}) =>
          predict_input = example

C9_Witness ==
    /\ notebook = "xgboost"
    /\ At("loaded_model.predict") # {}
    /\ Len(feature_names) = 8
    /\ DOMAIN predict_input = SixNames \cup {Str("vendor:hp"), Str("vendor:ibm2")}

Tested == notebook = "pytorch" /\ CellDone("test_model")

\* out[i] for a 0-based index.
Score(i) == out[i + 1]

\* C10: after the test cell top_5_indices holds five distinct indices into
\* the output vector, in the order of non-increasing score, and no index
\* outside the five has a greater score than one of the five; each row
\* printed is the label and the score of the same index, which is an
\* index into the 1000 class labels.
C10_Top5 ==
    Tested =>
        LET idx == top_5_indices
            chosen == Range(idx)
        IN /\ Len(idx) = 5
           /\ Cardinality(chosen) = 5
           /\ chosen \subseteq 0..(Len(out) - 1)
           /\ \A k \in 1..4 : Score(idx[k]) >= Score(idx[k + 1])
           /\ \A j \in (0..(Len(out) - 1)) \ chosen :
                 \A i \in chosen : Score(j) <= Score(i)
           /\ Len(class_labels) = 1000
           /\ Len(printed) = 5
           /\ \A k \in 1..5 :
                 /\ idx[k] + 1 <= Len(class_labels)
                 /\ printed[k].label = label_lines[idx[k] + 2]
                 /\ printed[k].score = Score(idx[k])

C10_Witness ==
    /\ Tested
    /\ out = <<0, 1, 1, 0, 1, 1>>
    /\ top_5_indices = <<5, 4, 2, 1, 3>>
    /\ printed[5].label = "class4"

====
